---- MODULE Spec2Model ----
(***************************************************************************)
(* Model of check_tl.py: the trustline fetcher with failover and retries,  *)
(* the tri-state classifier has_trustline, and the two passes of main over *)
(* the tokens, retry_queue and tokens_missing_tl tables.                   *)
(***************************************************************************)
EXTENDS Integers, Sequences, FiniteSets, TLC

VARIABLES
    fetch,                  \* position and history of one fetch_trustlines_with_failover call
    tl_status,              \* what has_trustline returned for that call ("pending" before)
    pc,                     \* position of main
    db,                     \* the three tables of snapshot.db, as the connection sees them
    disk,                   \* the tables as last committed
    rows,                   \* rows of the running pass's fetchall() not yet iterated
    Wallets_moved_missing,  \* local counter of the running pass
    Wallets_moved_retry,    \* local counter of process_Wallets_table
    moved_missing,          \* main's locals, assigned when a pass returns
    moved_retry,
    moved_missing_2,
    db0,                    \* history: the tables when the run started
    status1,                \* history: Wallet -> tl_status seen by pass 1
    status2,                \* history: Wallet -> tl_status seen by pass 2
    writes,                 \* history: number of write statements executed by each pass
    calls,                  \* history: Wallet -> number of has_trustline calls, per pass
    pass,                   \* history: passes started so far, and the tables when the last one started
    cur,                    \* the row whose has_trustline call is running, when a call is stepped
    fault                   \* "none", or how the process ended early: "killed", "store_error"

vars == <<fetch, tl_status, pc, db, disk, rows, Wallets_moved_missing, Wallets_moved_retry,
          moved_missing, moved_retry, moved_missing_2, db0, status1, status2, writes,
          calls, pass, cur, fault>>

fetchVars == <<fetch, tl_status>>
mainVars == <<pc, db, disk, rows, Wallets_moved_missing, Wallets_moved_retry,
              moved_missing, moved_retry, moved_missing_2, db0, status1, status2, writes,
              calls, pass, cur, fault>>

----------------------------------------------------------------------------
(* Bounds of the model *)

\* wallets are 1..NumWallets
NumWallets == 3
\* most rows the retry and missing tables hold together when a run starts
MaxPre == 1
\* largest tries value of a row already in the retry table
MaxTries == 3
\* longest trustline list a node answers with
MaxLines == 2
\* most rows the three tables hold together when a request-by-request run starts
MaxSteppedRows == 2

----------------------------------------------------------------------------
(* Configuration *)

AIRDROP_TABLE == "tokens"
MISSING_TL_TABLE == "tokens_missing_tl"
RETRY_QUEUE_TABLE == "retry_queue"

NODES == <<"https://xrplcluster.com/", "https://s2.ripple.com:51234/", "https://xrpl.link/">>

ISSUER_OF_TOKEN == "rJ9uU9jKxNcsNQM2CLKUhPxNn8P4xmhDVq"
CURRENCY_HEX == "4241594E414E4100000000000000000000000000"

max_retries_per_node == 2
base_backoff_seconds == 2

----------------------------------------------------------------------------
(* The ledger's answers: the inputs of a fetch *)

\* a trustline entry as has_trustline reads it: line.get("account"), line.get("currency")
TrustlineEntries ==
    [account : {ISSUER_OF_TOKEN, "rOtherIssuer"}, currency : {CURRENCY_HEX, "USD"}]

RECURSIVE SeqsUpTo(_, _)
SeqsUpTo(S, n) ==
    IF n = 0 THEN {<<>>}
    ELSE LET shorter == SeqsUpTo(S, n - 1)
         IN  shorter \cup {Append(s, x) : s \in {t \in shorter : Len(t) = n - 1}, x \in S}

LinesLists == SeqsUpTo(TrustlineEntries, MaxLines)

\* one client.request(req): a successful response carrying "lines", a response that
\* is not successful, or an exception
Outcomes ==
    [kind : {"success"}, lines : LinesLists]
        \cup [kind : {"unsuccessful", "exception"}, lines : {<<>>}]

Failures == {o \in Outcomes : o.kind # "success"}
Successes == {o \in Outcomes : o.kind = "success"}

----------------------------------------------------------------------------
(* fetch_trustlines_with_failover *)

\* Python's None against a list: the result is a record, lines meaningful when ~none
None == [none |-> TRUE, lines |-> <<>>]
Lines(l) == [none |-> FALSE, lines |-> l]

FetchStart ==
    [node |-> 1, attempt |-> 1, contacted |-> <<>>, responses |-> <<>>,
     sleeps |-> <<>>, done |-> FALSE, result |-> None]

\* AfterFailure without the outer loop: gives up when the first node is exhausted
AfterFailureNoFailover(fs) ==
    IF fs.attempt < max_retries_per_node
    THEN [fs EXCEPT !.attempt = fs.attempt + 1]
    ELSE [fs EXCEPT !.done = TRUE, !.result = None]

\* AfterFailure that starts over at the first node when the last one is exhausted
AfterFailureStartsOver(fs) ==
    IF fs.attempt < max_retries_per_node
    THEN [fs EXCEPT !.attempt = fs.attempt + 1]
    ELSE IF fs.node < Len(NODES)
         THEN [fs EXCEPT !.node = fs.node + 1, !.attempt = 1]
         ELSE [fs EXCEPT !.node = 1, !.attempt = 1]

\* the loops' next position after a failed attempt, or the final return None
AfterFailure(fs) ==
    IF fs.attempt < max_retries_per_node
    THEN [fs EXCEPT !.attempt = fs.attempt + 1]
    ELSE IF fs.node < Len(NODES)
         THEN [fs EXCEPT !.node = fs.node + 1, !.attempt = 1]
         ELSE [fs EXCEPT !.done = TRUE, !.result = None]

\* AttemptStep without the return inside the loop: a success is kept and the loops go on
AttemptStepNoReturn(fs, o) ==
    LET asked == [fs EXCEPT !.contacted = Append(@, <<fs.node, fs.attempt>>),
                            !.responses = Append(@, o)]
    IN  IF o.kind = "success"
        THEN AfterFailure([asked EXCEPT !.result = Lines(o.lines)])
        ELSE AfterFailure([asked EXCEPT
                 !.sleeps = Append(@, base_backoff_seconds * fs.attempt)])

\* AttemptStep whose except branch leaves the retry loop: an exception costs the node
\* its remaining attempts
AttemptStepExceptionSkipsNode(fs, o) ==
    LET asked == [fs EXCEPT !.contacted = Append(@, <<fs.node, fs.attempt>>),
                            !.responses = Append(@, o)]
    IN  IF o.kind = "success"
        THEN [asked EXCEPT !.done = TRUE, !.result = Lines(o.lines)]
        ELSE IF o.kind = "exception"
        THEN AfterFailure([asked EXCEPT !.attempt = max_retries_per_node])
        ELSE AfterFailure([asked EXCEPT
                 !.sleeps = Append(@, base_backoff_seconds * fs.attempt)])

\* one iteration of the retry loop: the request, then return or sleep
AttemptStep(fs, o) ==
    LET asked == [fs EXCEPT !.contacted = Append(@, <<fs.node, fs.attempt>>),
                            !.responses = Append(@, o)]
    IN  IF o.kind = "success"
        THEN [asked EXCEPT !.done = TRUE, !.result = Lines(o.lines)]
        ELSE AfterFailure([asked EXCEPT
                 !.sleeps = Append(@, base_backoff_seconds * fs.attempt)])

RECURSIVE FetchRun(_, _)
FetchRun(fs, oracle) ==
    IF fs.done \/ oracle = <<>> THEN fs
    ELSE FetchRun(AttemptStep(fs, Head(oracle)), Tail(oracle))

\* the call as a function of the answers the nodes give, in the order asked
fetch_trustlines_with_failover(oracle) == FetchRun(FetchStart, oracle).result

----------------------------------------------------------------------------
(* has_trustline *)

\* ScanLines comparing the issuer alone
RECURSIVE ScanLinesIssuerOnly(_)
ScanLinesIssuerOnly(lines) ==
    IF lines = <<>> THEN "False"
    ELSE IF Head(lines).account = ISSUER_OF_TOKEN
         THEN "True"
         ELSE ScanLinesIssuerOnly(Tail(lines))

RECURSIVE ScanLines(_)
ScanLines(lines) ==
    IF lines = <<>> THEN "False"
    ELSE IF Head(lines).account = ISSUER_OF_TOKEN /\ Head(lines).currency = CURRENCY_HEX
         THEN "True"
         ELSE ScanLines(Tail(lines))

Classify(result) == IF result.none THEN "None" ELSE ScanLines(result.lines)

has_trustline(oracle) == Classify(fetch_trustlines_with_failover(oracle))

\* the answer sequences a fetch can consume: failures up to the first success
MaxAttempts == Len(NODES) * max_retries_per_node

OracleRuns ==
    LET fails == SeqsUpTo(Failures, MaxAttempts)
    IN  {f \in fails : Len(f) = MaxAttempts}
            \cup {Append(f, s) : f \in {g \in fails : Len(g) < MaxAttempts}, s \in Successes}

\* every value has_trustline can hand to a pass
Classifications == {has_trustline(oracle) : oracle \in OracleRuns}

----------------------------------------------------------------------------
(* The fetcher and the classifier, one request at a time *)

FetchAttempt ==
    /\ ~fetch.done
    /\ tl_status = "pending"
    /\ \E o \in Outcomes : fetch' = AttemptStep(fetch, o)
    /\ UNCHANGED <<tl_status, mainVars>>

HasTrustlineReturn ==
    /\ fetch.done
    /\ tl_status = "pending"
    /\ tl_status' = Classify(fetch.result)
    /\ UNCHANGED <<fetch, mainVars>>

----------------------------------------------------------------------------
(* The store *)

Wallets == 1..NumWallets

\* Balance of a wallet's row in the airdrop table, and of a row that an earlier
\* run left in another table
SrcBalance(w) == CASE w = 1 -> 100 [] w = 2 -> 200 [] w = 3 -> 50 [] OTHER -> 25 * w
OldBalance(w) == SrcBalance(w) + 1

EmptyDb ==
    [tokens |-> <<>>, retry_queue |-> <<>>, tokens_missing_tl |-> <<>>]

SourceTables == {[w \in S |-> [Balance |-> SrcBalance(w)]] : S \in SUBSET Wallets}

MissingTables == {[w \in S |-> [Balance |-> OldBalance(w)]] : S \in SUBSET Wallets}

RetryTables ==
    UNION {{[w \in S |-> [Balance |-> OldBalance(w), tries |-> t[w]]] :
               t \in [S -> {0, MaxTries}]} : S \in SUBSET Wallets}

InitialDbs ==
    {d \in [tokens : SourceTables, retry_queue : RetryTables,
            tokens_missing_tl : MissingTables] :
        Cardinality(DOMAIN d.retry_queue) + Cardinality(DOMAIN d.tokens_missing_tl)
            <= MaxPre}

\* Upsert as INSERT OR IGNORE: a row already there is kept
UpsertKeepsOld(table, Wallet, row) ==
    [w \in DOMAIN table \cup {Wallet} |->
        IF w \in DOMAIN table THEN table[w] ELSE row]

\* INSERT OR REPLACE on the primary key Wallet
Upsert(table, Wallet, row) ==
    [w \in DOMAIN table \cup {Wallet} |-> IF w = Wallet THEN row ELSE table[w]]

\* DELETE FROM table WHERE Wallet = ?
DeleteRow(table, Wallet) == [w \in DOMAIN table \ {Wallet} |-> table[w]]

\* SELECT ... FROM table, fetchall(): the rows, in no order the code relies on
SelectAll(table) == {[Wallet |-> w, row |-> table[w]] : w \in DOMAIN table}

----------------------------------------------------------------------------
(* process_Wallets_table and process_retry_queue: one row *)

\* MoveToMissing without its DELETE
MoveToMissingNoDelete(d, table_name, Wallet, Balance) ==
    [d EXCEPT ![MISSING_TL_TABLE] = Upsert(@, Wallet, [Balance |-> Balance])]

\* INSERT OR REPLACE INTO tokens_missing_tl, then DELETE FROM table_name
MoveToMissing(d, table_name, Wallet, Balance) ==
    LET inserted == [d EXCEPT ![MISSING_TL_TABLE] =
                        Upsert(@, Wallet, [Balance |-> Balance])]
    IN  [inserted EXCEPT ![table_name] = DeleteRow(@, Wallet)]

\* CoalesceTries without the sub-select: the counter starts again at 0
CoalesceTriesReset(d, Wallet) == 0

\* COALESCE((SELECT tries FROM retry_queue WHERE Wallet=?), 0)
CoalesceTries(d, Wallet) ==
    IF Wallet \in DOMAIN d[RETRY_QUEUE_TABLE] THEN d[RETRY_QUEUE_TABLE][Wallet].tries ELSE 0

\* MoveToRetry without its DELETE
MoveToRetryNoDelete(d, table_name, Wallet, Balance) ==
    [d EXCEPT ![RETRY_QUEUE_TABLE] =
        Upsert(@, Wallet, [Balance |-> Balance, tries |-> CoalesceTries(d, Wallet)])]

\* INSERT OR REPLACE INTO retry_queue, then DELETE FROM table_name
MoveToRetry(d, table_name, Wallet, Balance) ==
    LET inserted == [d EXCEPT ![RETRY_QUEUE_TABLE] =
                        Upsert(@, Wallet, [Balance |-> Balance,
                                           tries |-> CoalesceTries(d, Wallet)])]
    IN  [inserted EXCEPT ![table_name] = DeleteRow(@, Wallet)]

\* WalletsRow counting a wallet queued for retry as moved to missing_tl
WalletsRowMiscounts(d, table_name, second_pass, Wallet, Balance, tl) ==
    IF tl = "True"
    THEN [db |-> d, missing |-> 0, retry |-> 0, writes |-> 0]
    ELSE IF tl = "False" \/ second_pass
    THEN [db |-> MoveToMissing(d, table_name, Wallet, Balance),
          missing |-> 1, retry |-> 0, writes |-> 2]
    ELSE [db |-> MoveToRetry(d, table_name, Wallet, Balance),
          missing |-> 1, retry |-> 0, writes |-> 2]

\* WalletsRow deleting a confirmed wallet from the table it reads
WalletsRowDeletesPresent(d, table_name, second_pass, Wallet, Balance, tl) ==
    IF tl = "True"
    THEN [db |-> [d EXCEPT ![table_name] = DeleteRow(@, Wallet)],
          missing |-> 0, retry |-> 0, writes |-> 1]
    ELSE IF tl = "False" \/ second_pass
    THEN [db |-> MoveToMissing(d, table_name, Wallet, Balance),
          missing |-> 1, retry |-> 0, writes |-> 2]
    ELSE [db |-> MoveToRetry(d, table_name, Wallet, Balance),
          missing |-> 0, retry |-> 1, writes |-> 2]

\* the body of process_Wallets_table's loop for one row: the tables after it, what
\* it adds to the two counters, and the number of statements it executed
WalletsRow(d, table_name, second_pass, Wallet, Balance, tl) ==
    IF tl = "True"
    THEN [db |-> d, missing |-> 0, retry |-> 0, writes |-> 0]
    ELSE IF tl = "False"
    THEN [db |-> MoveToMissing(d, table_name, Wallet, Balance),
          missing |-> 1, retry |-> 0, writes |-> 2]
    ELSE IF second_pass
    THEN [db |-> MoveToMissing(d, table_name, Wallet, Balance),
          missing |-> 1, retry |-> 0, writes |-> 2]
    ELSE [db |-> MoveToRetry(d, table_name, Wallet, Balance),
          missing |-> 0, retry |-> 1, writes |-> 2]

\* RetryRow deleting a wallet it still cannot classify, as if it were confirmed
RetryRowDropsUnknown(d, Wallet, Balance, tl) ==
    IF tl = "True" \/ tl = "None"
    THEN [db |-> [d EXCEPT ![RETRY_QUEUE_TABLE] = DeleteRow(@, Wallet)],
          missing |-> 0, writes |-> 1]
    ELSE [db |-> MoveToMissing(d, RETRY_QUEUE_TABLE, Wallet, Balance),
          missing |-> 1, writes |-> 2]

\* RetryRow with "elif tl_status is False" alone: an unknown wallet is left in place
RetryRowKeepsUnknown(d, Wallet, Balance, tl) ==
    IF tl = "True"
    THEN [db |-> [d EXCEPT ![RETRY_QUEUE_TABLE] = DeleteRow(@, Wallet)],
          missing |-> 0, writes |-> 1]
    ELSE IF tl = "False"
    THEN [db |-> MoveToMissing(d, RETRY_QUEUE_TABLE, Wallet, Balance),
          missing |-> 1, writes |-> 2]
    ELSE [db |-> d, missing |-> 0, writes |-> 0]

\* RetryRow without the DELETE of a confirmed wallet
RetryRowKeepsPresent(d, Wallet, Balance, tl) ==
    IF tl = "True"
    THEN [db |-> d, missing |-> 0, writes |-> 0]
    ELSE [db |-> MoveToMissing(d, RETRY_QUEUE_TABLE, Wallet, Balance),
          missing |-> 1, writes |-> 2]

\* the body of process_retry_queue's loop for one row
RetryRow(d, Wallet, Balance, tl) ==
    IF tl = "True"
    THEN [db |-> [d EXCEPT ![RETRY_QUEUE_TABLE] = DeleteRow(@, Wallet)],
          missing |-> 0, writes |-> 1]
    ELSE IF tl = "False" \/ tl = "None"
    THEN [db |-> MoveToMissing(d, RETRY_QUEUE_TABLE, Wallet, Balance),
          missing |-> 1, writes |-> 2]
    ELSE [db |-> d, missing |-> 0, writes |-> 0]

----------------------------------------------------------------------------
(* main *)

\* RunSecondPass without the test: the retry queue is always processed
RunSecondPassUnconditional(n) == TRUE

\* RunSecondPass with the comparison off by one
RunSecondPassAlways(n) == n >= 0

\* if moved_retry > 0
RunSecondPass(n) == n > 0

\* Pass1Rows scanning the missing table as well as the source table
Pass1RowsWithMissing(d) ==
    SelectAll(d[AIRDROP_TABLE]) \cup SelectAll(d[MISSING_TL_TABLE])

\* SELECT Wallet, Balance FROM tokens: the rows pass 1 iterates
Pass1Rows(d) == SelectAll(d[AIRDROP_TABLE])

\* has_trustline(Wallet) is called once more in pass p
Called(c, w, p) == [c EXCEPT ![w][p] = @ + 1]

\* BeforeCommit of a connection in autocommit mode: every statement is durable at once
BeforeCommitAutocommit(committed, current) == current

\* what the statements of a pass leave durable before conn.commit(): sqlite3 opens a
\* transaction at the first INSERT or DELETE, so nothing until the commit
BeforeCommit(committed, current) == committed

\* OnStoreError with the error caught and logged inside the loop: the pass goes on
OnStoreErrorContinue(p) == p

\* an sqlite3 error raised by execute() or commit() is caught nowhere: the process ends
OnStoreError(p) == "failed"

\* connect, ensure_tables, and the first pass's SELECT
Start ==
    /\ pc = "start"
    /\ pc' = "pass1"
    /\ rows' = Pass1Rows(db)
    /\ Wallets_moved_missing' = 0
    /\ Wallets_moved_retry' = 0
    /\ pass' = [n |-> 1, db |-> db]
    /\ UNCHANGED <<fetchVars, db, disk, moved_missing, moved_retry, moved_missing_2,
                   db0, status1, status2, writes, calls, cur, fault>>

\* the statements and the counters of one iteration of process_Wallets_table(conn,
\* AIRDROP_TABLE, second_pass=False), for row r classified tl
Pass1Apply(r, tl) ==
    LET e == WalletsRow(db, AIRDROP_TABLE, FALSE, r.Wallet, r.row.Balance, tl)
    IN  /\ db' = e.db
        /\ disk' = BeforeCommit(disk, e.db)
        /\ Wallets_moved_missing' = Wallets_moved_missing + e.missing
        /\ Wallets_moved_retry' = Wallets_moved_retry + e.retry
        /\ writes' = [writes EXCEPT !.pass1 = @ + e.writes]
        /\ status1' = Upsert(status1, r.Wallet, tl)

\* one iteration of process_Wallets_table, the has_trustline call included
Pass1Wallet ==
    /\ pc = "pass1"
    /\ cur = {}
    /\ \E r \in rows, tl \in Classifications :
          /\ Pass1Apply(r, tl)
          /\ calls' = Called(calls, r.Wallet, "pass1")
          /\ rows' = rows \ {r}
    /\ UNCHANGED <<fetchVars, pc, moved_missing, moved_retry, moved_missing_2,
                   db0, status2, pass, cur, fault>>

\* the first pass commits and returns its counts; main starts the second pass or ends
Pass1Return ==
    /\ pc = "pass1"
    /\ cur = {}
    /\ rows = {}
    /\ disk' = db
    /\ moved_missing' = Wallets_moved_missing
    /\ moved_retry' = Wallets_moved_retry
    /\ IF RunSecondPass(Wallets_moved_retry)
       THEN /\ pc' = "pass2"
            /\ rows' = SelectAll(db[RETRY_QUEUE_TABLE])
            /\ Wallets_moved_missing' = 0
            /\ pass' = [n |-> pass.n + 1, db |-> db]
       ELSE /\ pc' = "done"
            /\ UNCHANGED <<rows, Wallets_moved_missing, pass>>
    /\ UNCHANGED <<fetchVars, db, Wallets_moved_retry, moved_missing_2,
                   db0, status1, status2, writes, calls, cur, fault>>

\* the statements and the counter of one iteration of process_retry_queue
Pass2Apply(r, tl) ==
    LET e == RetryRow(db, r.Wallet, r.row.Balance, tl)
    IN  /\ db' = e.db
        /\ disk' = BeforeCommit(disk, e.db)
        /\ Wallets_moved_missing' = Wallets_moved_missing + e.missing
        /\ writes' = [writes EXCEPT !.pass2 = @ + e.writes]
        /\ status2' = Upsert(status2, r.Wallet, tl)

\* one iteration of process_retry_queue, the has_trustline call included
Pass2Wallet ==
    /\ pc = "pass2"
    /\ cur = {}
    /\ \E r \in rows, tl \in Classifications :
          /\ Pass2Apply(r, tl)
          /\ calls' = Called(calls, r.Wallet, "pass2")
          /\ rows' = rows \ {r}
    /\ UNCHANGED <<fetchVars, pc, Wallets_moved_retry, moved_missing, moved_retry,
                   moved_missing_2, db0, status1, pass, cur, fault>>

\* the second pass commits and returns; main closes the connection
Pass2Return ==
    /\ pc = "pass2"
    /\ cur = {}
    /\ rows = {}
    /\ disk' = db
    /\ moved_missing_2' = Wallets_moved_missing
    /\ pc' = "done"
    /\ UNCHANGED <<fetchVars, db, rows, Wallets_moved_missing, Wallets_moved_retry,
                   moved_missing, moved_retry, db0, status1, status2, writes,
                   calls, pass, cur, fault>>

\* the process is terminated from outside while a pass is running
Kill ==
    /\ pc \in {"pass1", "pass2"}
    /\ fault = "none"
    /\ pc' = "killed"
    /\ fault' = "killed"
    /\ UNCHANGED <<fetchVars, db, disk, rows, Wallets_moved_missing, Wallets_moved_retry,
                   moved_missing, moved_retry, moved_missing_2, db0, status1, status2,
                   writes, calls, pass, cur>>

\* cursor.execute() for the next row, or conn.commit(), raises an sqlite3 error
StoreError ==
    /\ pc \in {"pass1", "pass2"}
    /\ fault = "none"
    /\ pc' = OnStoreError(pc)
    /\ fault' = "store_error"
    /\ UNCHANGED <<fetchVars, db, disk, rows, Wallets_moved_missing, Wallets_moved_retry,
                   moved_missing, moved_retry, moved_missing_2, db0, status1, status2,
                   writes, calls, pass, cur>>

\* the script is run once more on the store the first run committed: a new process,
\* whose pass 1 is numbered 3 (its pass 2, if any, 4)
MainAgain ==
    /\ pc = "done"
    /\ pass.n <= 2
    /\ pc' = "pass1"
    /\ db' = disk
    /\ rows' = Pass1Rows(disk)
    /\ pass' = [n |-> 3, db |-> disk]
    /\ Wallets_moved_missing' = 0
    /\ Wallets_moved_retry' = 0
    /\ moved_missing' = 0
    /\ moved_retry' = 0
    /\ moved_missing_2' = 0
    /\ status1' = <<>>
    /\ status2' = <<>>
    /\ writes' = [pass1 |-> 0, pass2 |-> 0]
    /\ calls' = [w \in Wallets |-> [pass1 |-> 0, pass2 |-> 0]]
    /\ db0' = disk
    /\ UNCHANGED <<fetchVars, disk, cur, fault>>

----------------------------------------------------------------------------
(* main with has_trustline stepped: one request at a time inside each iteration *)

\* the answers a node gives in the stepped run: a failure, or a success with no line
\* or one line
SteppedOutcomes == {o \in Outcomes : o.kind # "exception" /\ Len(o.lines) <= 1}

\* the stores of the stepped run: those with at most MaxSteppedRows rows in all
SteppedDbs ==
    {d \in InitialDbs :
        Cardinality(DOMAIN d.tokens) + Cardinality(DOMAIN d.retry_queue)
            + Cardinality(DOMAIN d.tokens_missing_tl) <= MaxSteppedRows}

\* an iteration of either pass takes its row and calls has_trustline(Wallet)
WalletBegin ==
    /\ pc \in {"pass1", "pass2"}
    /\ cur = {}
    /\ \E r \in rows :
          /\ cur' = {r}
          /\ rows' = rows \ {r}
          /\ calls' = Called(calls, r.Wallet, pc)
    /\ fetch' = FetchStart
    /\ tl_status' = "pending"
    /\ UNCHANGED <<pc, db, disk, Wallets_moved_missing, Wallets_moved_retry,
                   moved_missing, moved_retry, moved_missing_2, db0, status1, status2,
                   writes, pass, fault>>

\* one client.request(req) of the call in progress
WalletRequest ==
    /\ cur # {}
    /\ ~fetch.done
    /\ \E o \in SteppedOutcomes : fetch' = AttemptStep(fetch, o)
    /\ UNCHANGED <<tl_status, mainVars>>

\* has_trustline returns and the iteration of pass 1 executes its statements
Pass1WalletEnd ==
    /\ pc = "pass1"
    /\ fetch.done
    /\ \E r \in cur : Pass1Apply(r, Classify(fetch.result))
    /\ cur' = {}
    /\ fetch' = FetchStart
    /\ UNCHANGED <<tl_status, pc, rows, moved_missing, moved_retry, moved_missing_2,
                   db0, status2, calls, pass, fault>>

\* has_trustline returns and the iteration of pass 2 executes its statements
Pass2WalletEnd ==
    /\ pc = "pass2"
    /\ fetch.done
    /\ \E r \in cur : Pass2Apply(r, Classify(fetch.result))
    /\ cur' = {}
    /\ fetch' = FetchStart
    /\ UNCHANGED <<tl_status, pc, rows, Wallets_moved_retry, moved_missing, moved_retry,
                   moved_missing_2, db0, status1, calls, pass, fault>>

----------------------------------------------------------------------------
(* Specifications *)

MainIdle(d) ==
    /\ pc = "start"
    /\ db = d
    /\ disk = d
    /\ db0 = d
    /\ rows = {}
    /\ Wallets_moved_missing = 0
    /\ Wallets_moved_retry = 0
    /\ moved_missing = 0
    /\ moved_retry = 0
    /\ moved_missing_2 = 0
    /\ status1 = <<>>
    /\ status2 = <<>>
    /\ writes = [pass1 |-> 0, pass2 |-> 0]
    /\ calls = [w \in Wallets |-> [pass1 |-> 0, pass2 |-> 0]]
    /\ pass = [n |-> 0, db |-> d]
    /\ cur = {}
    /\ fault = "none"

FetchIdle ==
    /\ fetch = FetchStart
    /\ tl_status = "pending"

\* a run of main over any store within the bounds
Init ==
    /\ FetchIdle
    /\ \E d \in InitialDbs : MainIdle(d)

Next ==
    \/ Start
    \/ Pass1Wallet
    \/ Pass1Return
    \/ Pass2Wallet
    \/ Pass2Return

Spec == Init /\ [][Next]_vars

\* one call of has_trustline, against every behaviour of the nodes
InitFetch ==
    /\ FetchIdle
    /\ MainIdle(EmptyDb)

NextFetch ==
    \/ FetchAttempt
    \/ HasTrustlineReturn

SpecFetch == InitFetch /\ [][NextFetch]_vars

\* a run of main that may be killed, or whose store may fail, at any point of a pass
NextFaults ==
    \/ Next
    \/ Kill
    \/ StoreError

SpecFaults == Init /\ [][NextFaults]_vars

\* a run of main followed by a second run on the store it left
NextRerun ==
    \/ Next
    \/ MainAgain

SpecRerun == Init /\ [][NextRerun]_vars

\* a run of main, request by request, over a store of SteppedDbs; the process keeps
\* running and every request returns or raises (the client's timeout), so a step that
\* can be taken is taken
NextStepped ==
    \/ Start
    \/ WalletBegin
    \/ WalletRequest
    \/ Pass1WalletEnd
    \/ Pass1Return
    \/ Pass2WalletEnd
    \/ Pass2Return

InitStepped ==
    /\ FetchIdle
    /\ \E d \in SteppedDbs : MainIdle(d)

SpecStepped == InitStepped /\ [][NextStepped]_vars /\ WF_vars(NextStepped)

----------------------------------------------------------------------------
(* Claims about the fetcher and the classifier, checked under SpecFetch *)

\* every (node, attempt) pair, in the order the two loops visit them
EveryAttemptInOrder ==
    [i \in 1..MaxAttempts |->
        <<((i - 1) \div max_retries_per_node) + 1, ((i - 1) % max_retries_per_node) + 1>>]

NoSuccess == \A i \in DOMAIN fetch.responses : fetch.responses[i].kind # "success"

\* C1: fetch_trustlines_with_failover returns None if and only if every node of NODES,
\* in list order, has had both of its attempts fail; an attempt that succeeds yields
\* a trustline list, never None.
C1_IndeterminateIffAllExhausted ==
    fetch.done =>
        /\ fetch.result.none <=>
               (fetch.contacted = EveryAttemptInOrder /\ NoSuccess)
        /\ ~NoSuccess => (~fetch.result.none /\ fetch.result.lines \in LinesLists)

C1_Witness ==
    /\ fetch.done
    /\ fetch.result.none
    /\ Len(fetch.responses) = MaxAttempts
    /\ \E i, j \in DOMAIN fetch.responses :
          fetch.responses[i].kind = "exception" /\ fetch.responses[j].kind = "unsuccessful"

\* C2: the first successful attempt ends the query: its lines are the result and no
\* request follows it, on the same node or on a later one.  When node 1 fails twice
\* and node 2 succeeds on its first attempt, the result is that response and node 3
\* is never contacted.
C2_FirstSuccessEndsQuery ==
    /\ \A i \in DOMAIN fetch.responses :
          fetch.responses[i].kind = "success" =>
              /\ i = Len(fetch.responses)
              /\ Len(fetch.contacted) = i
              /\ fetch.done
              /\ fetch.result = Lines(fetch.responses[i].lines)
    /\ ( /\ Len(fetch.responses) >= 3
         /\ fetch.responses[1].kind # "success"
         /\ fetch.responses[2].kind # "success"
         /\ fetch.responses[3].kind = "success" )
       => /\ fetch.contacted = <<(<<1, 1>>), (<<1, 2>>), (<<2, 1>>)>>
          /\ fetch.result = Lines(fetch.responses[3].lines)
          /\ \A k \in DOMAIN fetch.contacted : fetch.contacted[k][1] # 3

C2_Witness ==
    /\ tl_status # "pending"
    /\ Len(fetch.responses) = 3
    /\ fetch.responses[3].kind = "success"
    /\ fetch.responses[3].lines # <<>>
    /\ fetch.contacted[3] = <<2, 1>>

Matches(line) == line.account = ISSUER_OF_TOKEN /\ line.currency = CURRENCY_HEX

\* C3: has_trustline returns None exactly when the fetch returned None; otherwise it
\* returns True if and only if some entry of the list has both the configured issuer
\* and the configured currency, and False otherwise, wherever the entry stands and
\* whatever the other entries are.
C3_Classification ==
    tl_status # "pending" =>
        /\ tl_status \in {"True", "False", "None"}
        /\ tl_status = "None" <=> fetch.result.none
        /\ ~fetch.result.none =>
              /\ tl_status = "True" <=>
                     \E i \in DOMAIN fetch.result.lines : Matches(fetch.result.lines[i])
              /\ tl_status = "False" <=>
                     \A i \in DOMAIN fetch.result.lines : ~Matches(fetch.result.lines[i])

\* a list whose entries match the issuer alone and the currency alone
C3_Witness ==
    /\ tl_status = "False"
    /\ ~fetch.result.none
    /\ fetch.result.lines =
           <<[account |-> ISSUER_OF_TOKEN, currency |-> "USD"],
             [account |-> "rOtherIssuer", currency |-> CURRENCY_HEX]>>

----------------------------------------------------------------------------
(* Claims about the two passes, checked under Spec *)

InTable(d, table_name, w) == w \in DOMAIN d[table_name]

DisjointTables(d) ==
    /\ DOMAIN d.tokens \cap DOMAIN d.retry_queue = {}
    /\ DOMAIN d.tokens \cap DOMAIN d.tokens_missing_tl = {}
    /\ DOMAIN d.retry_queue \cap DOMAIN d.tokens_missing_tl = {}

InSomeTable(d, w) ==
    InTable(d, AIRDROP_TABLE, w) \/ InTable(d, RETRY_QUEUE_TABLE, w)
        \/ InTable(d, MISSING_TL_TABLE, w)

Pass1Returned == pc \in {"pass2", "done"}

SeenAs(status, tl) == {w \in DOMAIN status : status[w] = tl}

\* C4: when the three tables hold pairwise disjoint wallet sets at the start of the
\* run, then after every per-wallet step of pass 1 and of pass 2 no wallet is in more
\* than one table.
C4_ResidencyExclusive == DisjointTables(db0) => DisjointTables(db)

C4_Witness ==
    /\ DisjointTables(db0)
    /\ pc = "done"
    /\ SeenAs(status1, "False") # {}
    /\ SeenAs(status2, "False") # {}
    /\ SeenAs(status2, "None") # {}

\* C5 as stated: a wallet that was in the source table when the run started is in at
\* least one of the three tables when the run ends.
C5_NeverAbsentFromAll ==
    pc = "done" => \A w \in DOMAIN db0.tokens : InSomeTable(db, w)

\* C5, amended: a wallet that was in the source table when the run started is in none
\* of the three tables when the run ends only if pass 1 could not classify it and
\* pass 2 found its trustline (pass 2 then deletes it from retry_queue).
C5_AbsentOnlyWhenConfirmedOnRetry ==
    pc = "done" =>
        \A w \in DOMAIN db0.tokens :
            ~InSomeTable(db, w) =>
                /\ w \in DOMAIN status1 /\ status1[w] = "None"
                /\ w \in DOMAIN status2 /\ status2[w] = "True"

C5_Witness ==
    /\ pc = "done"
    /\ \E w \in DOMAIN db0.tokens : ~InSomeTable(db, w)
    /\ \E w \in DOMAIN db0.tokens : w \in SeenAs(status1, "None") /\ InSomeTable(db, w)

C6_Scenario ==
    /\ db0.tokens = (1 :> [Balance |-> 100] @@ 2 :> [Balance |-> 200])
    /\ db0.retry_queue = <<>>
    /\ db0.tokens_missing_tl = <<>>
    /\ Pass1Returned
    /\ status1 = (1 :> "True" @@ 2 :> "False")

\* C6 as stated: source {W1: 100, W2: 200}, W1 confirmed, W2 without the trustline:
\* after pass 1 the source table is empty, the missing table is {W2: 200}, the retry
\* table is empty and the counts returned are (1, 0).
C6_SourceEmptied ==
    C6_Scenario =>
        /\ db.tokens = <<>>
        /\ db.tokens_missing_tl = (2 :> [Balance |-> 200])
        /\ db.retry_queue = <<>>
        /\ moved_missing = 1
        /\ moved_retry = 0

\* C6, amended: in that scenario, after pass 1 the source table is {W1: 100} (the
\* confirmed wallet stays), the missing table is {W2: 200}, the retry table is empty
\* and the counts returned are (1, 0).
C6_ConfirmedStays ==
    C6_Scenario =>
        /\ db.tokens = (1 :> [Balance |-> 100])
        /\ db.tokens_missing_tl = (2 :> [Balance |-> 200])
        /\ db.retry_queue = <<>>
        /\ moved_missing = 1
        /\ moved_retry = 0

C6_Witness == C6_Scenario /\ pc = "done"

\* C7: a wallet pass 1 cannot classify leaves the source table for the retry table
\* with its balance, and tries = 0 when it had no retry row, and is counted in
\* moved_retry; when pass 2 cannot classify it either it ends in the missing table
\* with the same balance, out of the retry table, counted by pass 2.  From source
\* {W3: 50}: retry = {W3: 50, tries 0} and moved_retry = 1 after pass 1, then retry
\* empty, missing = {W3: 50} and moved_missing_2 = 1.
C7_UnknownTwice ==
    /\ \A w \in SeenAs(status1, "None") :
          /\ ~InTable(db, AIRDROP_TABLE, w)
          /\ w \notin DOMAIN status2 =>
                /\ InTable(db, RETRY_QUEUE_TABLE, w)
                /\ db.retry_queue[w].Balance = db0.tokens[w].Balance
                /\ ~InTable(db0, RETRY_QUEUE_TABLE, w) => db.retry_queue[w].tries = 0
          /\ (w \in DOMAIN status2 /\ status2[w] = "None") =>
                /\ ~InTable(db, RETRY_QUEUE_TABLE, w)
                /\ InTable(db, MISSING_TL_TABLE, w)
                /\ db.tokens_missing_tl[w].Balance = db0.tokens[w].Balance
    /\ pc = "pass1" => Wallets_moved_retry = Cardinality(SeenAs(status1, "None"))
    /\ Pass1Returned => moved_retry = Cardinality(SeenAs(status1, "None"))
    /\ pc = "done" =>
          moved_missing_2 = Cardinality(SeenAs(status2, "None") \cup SeenAs(status2, "False"))
    /\ ( /\ db0 = [tokens |-> (3 :> [Balance |-> 50]), retry_queue |-> <<>>,
                   tokens_missing_tl |-> <<>>]
         /\ status1 = (3 :> "None") )
       => /\ (pc = "pass2" /\ status2 = <<>>) =>
                /\ db.tokens = <<>>
                /\ db.retry_queue = (3 :> [Balance |-> 50, tries |-> 0])
                /\ moved_retry = 1
          /\ (pc = "done" /\ status2 = (3 :> "None")) =>
                /\ db.retry_queue = <<>>
                /\ db.tokens_missing_tl = (3 :> [Balance |-> 50])
                /\ moved_missing_2 = 1

C7_Witness ==
    /\ db0 = [tokens |-> (3 :> [Balance |-> 50]), retry_queue |-> <<>>,
              tokens_missing_tl |-> <<>>]
    /\ pc = "done"
    /\ status1 = (3 :> "None")
    /\ status2 = (3 :> "None")

\* a step of pass 2 that handles one row of the retry table
Pass2Handles(r) == pc = "pass2" /\ r \in rows /\ rows' = rows \ {r}

\* C8: in pass 2 a wallet that still cannot be classified is handled exactly as one
\* without the trustline: either way its row is upserted into the missing table with
\* its balance and deleted from the retry table, and the count grows by one; a
\* confirmed wallet's row is deleted from the retry table and inserted nowhere.
C8_UnknownAsAbsentOnRetry ==
    [][\A r \in rows :
          Pass2Handles(r) =>
              LET w == r.Wallet
                  tl == status2'[w]
              IN  /\ db'.tokens = db.tokens
                  /\ db'.retry_queue = [x \in DOMAIN db.retry_queue \ {w} |-> db.retry_queue[x]]
                  /\ tl \in {"False", "None"} =>
                        /\ DOMAIN db'.tokens_missing_tl = DOMAIN db.tokens_missing_tl \cup {w}
                        /\ db'.tokens_missing_tl[w] = [Balance |-> r.row.Balance]
                        /\ \A x \in DOMAIN db.tokens_missing_tl \ {w} :
                              db'.tokens_missing_tl[x] = db.tokens_missing_tl[x]
                        /\ Wallets_moved_missing' = Wallets_moved_missing + 1
                  /\ tl = "True" =>
                        /\ db'.tokens_missing_tl = db.tokens_missing_tl
                        /\ Wallets_moved_missing' = Wallets_moved_missing]_vars

C8_Witness ==
    /\ pc = "done"
    /\ \E w1, w2, w3 \in DOMAIN status2 :
          /\ status2[w1] = "None" /\ InTable(db, MISSING_TL_TABLE, w1)
          /\ status2[w2] = "False" /\ InTable(db, MISSING_TL_TABLE, w2)
          /\ status2[w3] = "True" /\ ~InSomeTable(db, w3)
    /\ moved_missing_2 = 2

\* C9: pass 2 starts only when pass 1 has handled every source row, and it runs if
\* and only if pass 1 returned moved_retry > 0; when pass 1 moved no wallet to the
\* retry table, pass 2 classifies nothing and writes nothing.
C9_SecondPassOnlyAfterRetries ==
    /\ pc \in {"start", "pass1"} => (status2 = <<>> /\ writes.pass2 = 0)
    /\ Pass1Returned =>
          /\ DOMAIN status1 = DOMAIN db0.tokens
          /\ moved_retry = Cardinality(SeenAs(status1, "None"))
    /\ pc = "pass2" => moved_retry > 0
    /\ pc = "done" =>
          /\ moved_retry > 0 <=> status2 # <<>>
          /\ moved_retry = 0 => (writes.pass2 = 0 /\ db = disk)

C9_Witness ==
    /\ pc = "done"
    /\ moved_retry = 0
    /\ status1 # <<>>
    /\ db0.retry_queue # <<>>

\* the rows of the retry table when pass 2 starts
RetryAtPass2Start == DOMAIN db0.retry_queue \cup SeenAs(status1, "None")

\* C10: when pass 2 has completed, the retry table is empty: every row that was in it
\* when pass 2 started has been deleted (trustline found) or moved to the missing
\* table (no trustline, or still unknown).
C10_RetryEmptyAfterPass2 ==
    (pc = "done" /\ moved_retry > 0) =>
        /\ db.retry_queue = <<>>
        /\ DOMAIN status2 = RetryAtPass2Start
        /\ \A w \in RetryAtPass2Start :
              \/ status2[w] = "True"
              \/ status2[w] \in {"False", "None"} /\ InTable(db, MISSING_TL_TABLE, w)

C10_Witness ==
    /\ pc = "done"
    /\ moved_retry > 0
    /\ db0.retry_queue # <<>>
    /\ SeenAs(status2, "True") # {}
    /\ SeenAs(status2, "None") # {}

----------------------------------------------------------------------------
(* More claims about the fetcher, checked under SpecFetch *)

\* the requests made so far that were not a node's first attempt
LaterAttempts == {i \in DOMAIN fetch.contacted : fetch.contacted[i][2] > 1}

\* C13 as stated: a backoff sleep occurs only before an attempt after the first on the
\* same node; none between a node's last failed attempt and the next node's first,
\* none after the last node's last failed attempt.
C13_SleepOnlyBeforeRetry ==
    Len(fetch.sleeps) =
        Cardinality(LaterAttempts) + (IF ~fetch.done /\ fetch.attempt > 1 THEN 1 ELSE 0)

\* fetch.responses with every failure turned into one of the given kind
SameAs(responses, kind) ==
    [i \in DOMAIN responses |->
        IF responses[i].kind = "success" THEN responses[i]
        ELSE [kind |-> kind, lines |-> <<>>]]

SameOutcome(f, g) ==
    /\ f.result = g.result
    /\ f.contacted = g.contacted
    /\ f.sleeps = g.sleeps
    /\ f.done = g.done
    /\ f.node = g.node
    /\ f.attempt = g.attempt

\* C16: an exception and an unsuccessful response are treated alike: whatever the
\* failed attempts of a call were, the call with each of them replaced by the other
\* kind has the same result, contacts the same nodes and attempts and sleeps the same,
\* and the caller sees a trustline list or None, nothing else.
C16_FailureKindsAlike ==
    /\ SameOutcome(fetch, FetchRun(FetchStart, SameAs(fetch.responses, "exception")))
    /\ SameOutcome(fetch, FetchRun(FetchStart, SameAs(fetch.responses, "unsuccessful")))
    /\ fetch.done => (fetch.result = None \/ fetch.result \in {Lines(l) : l \in LinesLists})
    /\ tl_status \in {"pending", "True", "False", "None"}

C16_Witness ==
    /\ fetch.done
    /\ ~fetch.result.none
    /\ Len(fetch.responses) = 4
    /\ fetch.responses[1].kind = "exception"
    /\ fetch.responses[2].kind = "unsuccessful"
    /\ fetch.responses[3].kind = "exception"

----------------------------------------------------------------------------
(* More claims about the two passes, checked under Spec *)

\* C11: when pass 1 queues a wallet for retry and retry_queue already holds a row for
\* it with tries = n, the row after the upsert has tries = n and the balance of the
\* source row; with no earlier row tries = 0.  Nothing the program does changes a
\* tries value.
C11_TriesPreserved ==
    \A w \in DOMAIN db.retry_queue :
        /\ db.retry_queue[w].tries =
               IF InTable(db0, RETRY_QUEUE_TABLE, w) THEN db0.retry_queue[w].tries ELSE 0
        /\ db.retry_queue[w].Balance =
               IF w \in SeenAs(status1, "None") THEN db0.tokens[w].Balance
               ELSE db0.retry_queue[w].Balance

C11_Witness ==
    \E w \in SeenAs(status1, "None") :
        /\ InTable(db0, RETRY_QUEUE_TABLE, w)
        /\ db0.retry_queue[w].tries = 3
        /\ db0.retry_queue[w].Balance # db0.tokens[w].Balance
        /\ InTable(db, RETRY_QUEUE_TABLE, w)
        /\ db.retry_queue[w] = [Balance |-> db0.tokens[w].Balance, tries |-> 3]

\* C18: the counts pass 1 returns are the numbers of wallets it moved: moved_missing
\* the rows without the trustline, moved_retry the rows it could not classify, their
\* sum the rows gone from the source table; a row with the trustline stays in the
\* source table with its balance and costs no write.
C18_CountsAreMoves ==
    /\ pc = "pass1" =>
          /\ Wallets_moved_missing = Cardinality(SeenAs(status1, "False"))
          /\ Wallets_moved_retry = Cardinality(SeenAs(status1, "None"))
    /\ Pass1Returned =>
          /\ moved_missing = Cardinality(SeenAs(status1, "False"))
          /\ moved_retry = Cardinality(SeenAs(status1, "None"))
          /\ moved_missing + moved_retry =
                 Cardinality(DOMAIN db0.tokens \ DOMAIN db.tokens)
    /\ \A w \in SeenAs(status1, "True") :
          InTable(db, AIRDROP_TABLE, w) /\ db.tokens[w] = db0.tokens[w]
    /\ writes.pass1 =
           2 * Cardinality(SeenAs(status1, "False") \cup SeenAs(status1, "None"))
    /\ SeenAs(status1, "False") \cup SeenAs(status1, "None") = {} =>
           (pc \in {"start", "pass1"} => db = db0)

C18_Witness ==
    /\ pc = "done"
    /\ moved_missing = 1
    /\ moved_retry = 1
    /\ Cardinality(SeenAs(status1, "True")) = 1

\* C19: rows that are in the retry table when a run starts are handled only if pass 1
\* of that run queues a wallet itself: when it classifies every source wallet as
\* having or not having the trustline, those rows are left as they were and the retry
\* table is not empty when the run ends.
C19_OldRetryRowsWait ==
    (pc = "done" /\ SeenAs(status1, "None") = {}) =>
        /\ status2 = <<>>
        /\ db.retry_queue = db0.retry_queue
        /\ db0.retry_queue # <<>> => db.retry_queue # <<>>

C19_Witness ==
    /\ pc = "done"
    /\ db0.retry_queue # <<>>
    /\ db.retry_queue = db0.retry_queue
    /\ SeenAs(status1, "False") # {}
    /\ SeenAs(status1, "True") # {}

MovedToMissing ==
    SeenAs(status1, "False") \cup SeenAs(status2, "False") \cup SeenAs(status2, "None")

\* C20 as stated, for the wallets that were in the source table: no row leaves the
\* missing table, and a wallet moved into it during the run carries the balance it had
\* in the source table when the run started, directly or by way of the retry table.
C20_MissingCarriesSourceBalance ==
    /\ DOMAIN db0.tokens_missing_tl \subseteq DOMAIN db.tokens_missing_tl
    /\ \A w \in MovedToMissing \cap DOMAIN db0.tokens :
          /\ InTable(db, MISSING_TL_TABLE, w)
          /\ db.tokens_missing_tl[w].Balance = db0.tokens[w].Balance

\* the balance of the row a wallet was last moved to the missing table from
BalanceMoved(w) ==
    IF w \in SeenAs(status2, "False") \cup SeenAs(status2, "None")
    THEN IF w \in SeenAs(status1, "None") THEN db0.tokens[w].Balance
         ELSE db0.retry_queue[w].Balance
    ELSE db0.tokens[w].Balance

\* C20, amended: no row leaves the missing table, and a wallet moved into it during
\* the run carries the balance of the row it was last moved from, over any earlier
\* row: its source balance at the start of the run when pass 1 moved it or queued it,
\* and the balance of the retry row it had at the start of the run when pass 2 moved
\* that row without pass 1 having queued the wallet.
C20_MissingCarriesMovedBalance ==
    /\ DOMAIN db.tokens_missing_tl = DOMAIN db0.tokens_missing_tl \cup MovedToMissing
    /\ \A w \in DOMAIN db.tokens_missing_tl :
          db.tokens_missing_tl[w].Balance =
              IF w \in MovedToMissing THEN BalanceMoved(w)
              ELSE db0.tokens_missing_tl[w].Balance

C20_Witness ==
    /\ pc = "done"
    /\ \E w \in SeenAs(status1, "None") \cap SeenAs(status2, "None") :
          /\ InTable(db0, MISSING_TL_TABLE, w)
          /\ db0.tokens_missing_tl[w].Balance # db0.tokens[w].Balance
          /\ db.tokens_missing_tl[w].Balance = db0.tokens[w].Balance
    /\ SeenAs(status1, "False") # {}

----------------------------------------------------------------------------
(* Claims about a run that ends early, checked under SpecFaults *)

\* C14 as stated: when the process is killed while a wallet of a pass is being
\* processed, the moves that pass made for the wallets before it are durable, and no
\* insert is durable without its delete.
C14_MovesDurablePerWallet ==
    fault = "killed" =>
        /\ disk = db
        /\ DisjointTables(db0) => DisjointTables(disk)

\* C14, amended: a pass persists its moves once, at the commit after its loop: when
\* the process is killed while a wallet of a pass is being processed, none of that
\* pass's moves is durable, the persisted store is as it was when the pass started,
\* and so no insert is durable without its delete.
C14_MovesDurablePerPass ==
    /\ fault = "killed" =>
          /\ disk = pass.db
          /\ DisjointTables(db0) => DisjointTables(disk)
    /\ (pc = "pass1" \/ (fault = "killed" /\ pass.n = 1)) => disk = db0
    /\ pc = "done" => disk = db

C14_Witness ==
    /\ fault = "killed"
    /\ pass.n = 1
    /\ rows # {}
    /\ SeenAs(status1, "False") # {}
    /\ SeenAs(status1, "None") # {}
    /\ disk = db0
    /\ disk # db

\* C17: a store error during a pass ends the run: it is not caught or retried, and
\* after it no wallet is classified and no statement is executed; pass 2 does not
\* start when pass 1 failed.
C17_StoreErrorIsFatal ==
    [][fault # "store_error" /\ (fault' = "store_error" => pc' = "failed")]_vars

C17_Witness ==
    /\ fault = "store_error"
    /\ pc = "failed"
    /\ pass.n = 1
    /\ rows # {}
    /\ status1 # <<>>
    /\ status2 = <<>>

----------------------------------------------------------------------------
(* Claims about a second run, checked under SpecRerun *)

SameRows(d, e, w) ==
    \A t \in {AIRDROP_TABLE, RETRY_QUEUE_TABLE, MISSING_TL_TABLE} :
        /\ InTable(d, t, w) <=> InTable(e, t, w)
        /\ InTable(d, t, w) => d[t][w] = e[t][w]

\* C12: while pass 1 runs, in the first run or in a run after it, a wallet that was
\* not in the source table when that pass started has not been classified by it and
\* has in every table the row, with the balance, it had when the pass started; so a
\* wallet an earlier pass 1 moved to the missing table keeps that row.
C12_Pass1SkipsAbsent ==
    pc = "pass1" =>
        \A w \in Wallets :
            ~InTable(pass.db, AIRDROP_TABLE, w) =>
                /\ w \notin DOMAIN status1
                /\ calls[w].pass1 = 0
                /\ SameRows(db, pass.db, w)

C12_Witness ==
    /\ pc = "pass1"
    /\ pass.n = 3
    /\ rows = {}
    /\ status1 # <<>>
    /\ \E w \in Wallets :
          /\ ~InTable(pass.db, AIRDROP_TABLE, w)
          /\ InTable(pass.db, MISSING_TL_TABLE, w)
          /\ pass.db[MISSING_TL_TABLE][w] = [Balance |-> SrcBalance(w)]
          /\ db[MISSING_TL_TABLE][w] = [Balance |-> SrcBalance(w)]

----------------------------------------------------------------------------
(* Claims about the length of a run, checked under SpecStepped *)

\* C15: the run ends; has_trustline is called for a wallet at most once in pass 1,
\* only when the wallet was in the source table, and at most once in pass 2, so at
\* most twice in the run; a call makes at most Len(NODES) * max_retries_per_node
\* requests; and when pass 2 has run, no wallet that started in the source table is in
\* the retry table.
C15_BoundedRun ==
    /\ <>(pc = "done")
    /\ [](\A w \in Wallets :
             /\ calls[w].pass1 <= 1
             /\ calls[w].pass2 <= 1
             /\ calls[w].pass1 = 1 => InTable(db0, AIRDROP_TABLE, w))
    /\ [](Len(fetch.contacted) <= MaxAttempts)
    /\ []((pc = "done" /\ pass.n = 2) =>
             \A w \in DOMAIN db0[AIRDROP_TABLE] : ~InTable(db, RETRY_QUEUE_TABLE, w))

C15_Witness ==
    /\ pc = "done"
    /\ pass.n = 2
    /\ \E w \in DOMAIN db0[AIRDROP_TABLE] :
          /\ calls[w] = [pass1 |-> 1, pass2 |-> 1]
          /\ status1[w] = "None"
          /\ status2[w] = "None"
          /\ ~InTable(db, RETRY_QUEUE_TABLE, w)

====
